---- MODULE Spec2Model ----
(***************************************************************************)
(* web_chat: in-memory session store (sessions.py), audit recorder         *)
(* (audit.py) and the SSE streaming orchestrator (routes.py).              *)
(*                                                                         *)
(* Conventions                                                             *)
(*   - a Python str is a sequence of one-character strings;                *)
(*   - Optional[T] is a sequence of length 0 (None) or 1 (the value);      *)
(*   - the class-level dict SessionManager._sessions is the sequence of    *)
(*     its values in insertion order (a Python dict iterates in insertion  *)
(*     order); a key is looked up by scanning for its session_id;          *)
(*   - datetime.now().timestamp() reads the variable clock, which only     *)
(*     the environment advances; uuid.uuid4() draws the next unused value  *)
(*     of the counter uuids.                                               *)
(***************************************************************************)
EXTENDS Integers, Sequences, FiniteSets, TLC

VARIABLES
    sessions,            \* SessionManager._sessions, in insertion order
    current_session_id,  \* SessionManager._current_session_id
    clock,               \* wall clock read by datetime.now()
    uuids,               \* number of uuid4 values drawn so far
    updates,             \* number of update_session calls that found their session
    callers,             \* coroutines that each call add_message once
    trails,              \* AuditTrail._trails
    files,               \* the files of the directory artifacts/
    req                  \* the requests to /chat/stream and their generators

vars == <<sessions, current_session_id, clock, uuids, updates, callers, trails, files, req>>

\* what the session store does not touch
aside == <<trails, files, req>>

----------------------------------------------------------------------------
(* Bounds of the model *)

MaxUuid == 3
MaxClock == 1
NumCallers == 3
MaxUpdates == 1

----------------------------------------------------------------------------
(* Values *)

None == <<>>
Some(x) == <<x>>

Rep(c, n) == [i \in 1..n |-> c]

TitleLimit == 50

Ellipsis == <<".", ".", ".">>

Roles == {"user", "assistant", "system"}

Models == {"haiku"}

ShortContent == <<"h", "i">>
LongContent == Rep("y", TitleLimit + 1)

Contents == {ShortContent, LongContent}

Min(a, b) == IF a <= b THEN a ELSE b

Range(s) == {s[i] : i \in 1..Len(s)}

\* content[:n]
Prefix(s, n) == SubSeq(s, 1, Min(n, Len(s)))

\* datetime.now().timestamp(); a store call is short, so every read of the clock
\* within one call gives the same value, and time passes between calls (Tick).
\* The variable clock counts the ticks since the program started; the program
\* starts at a positive time, so a timestamp is never 0 (never falsy)
Now == clock + 1

----------------------------------------------------------------------------
(* Text: str operations used by routes.py *)

\* \w of the re module, over the characters the model uses
WordChars ==
    {"a", "b", "c", "d", "e", "f", "g", "h", "i", "j", "k", "l", "m",
     "n", "o", "p", "q", "r", "s", "t", "u", "v", "w", "x", "y", "z",
     "A", "B", "C", "D", "E", "F", "G", "H", "I", "J", "K", "L", "M",
     "N", "O", "P", "Q", "R", "S", "T", "U", "V", "W", "X", "Y", "Z",
     "0", "1", "2", "3", "4", "5", "6", "7", "8", "9", "_"}

\* \s of the re module and the whitespace of str.split / str.strip
SpaceChars == {" ", "\n", "\t"}

UpperCase == <<"A", "B", "C", "D", "E", "F", "G", "H", "I", "J", "K", "L", "M", "N", "O", "P", "Q", "R", "S", "T", "U", "V", "W", "X", "Y", "Z">>
LowerCase == <<"a", "b", "c", "d", "e", "f", "g", "h", "i", "j", "k", "l", "m", "n", "o", "p", "q", "r", "s", "t", "u", "v", "w", "x", "y", "z">>

\* str.lower()
LowerChar(c) ==
    IF \E i \in 1..Len(UpperCase) : UpperCase[i] = c
    THEN LowerCase[CHOOSE i \in 1..Len(UpperCase) : UpperCase[i] = c]
    ELSE c

Lower(text) == [i \in 1..Len(text) |-> LowerChar(text[i])]

\* text[from:] (from is a 1-based position)
Suffix(text, from) == SubSeq(text, from, Len(text))

\* text.startswith(pat, at - 1)
StartsAt(text, pat, at) ==
    /\ at >= 1
    /\ at + Len(pat) - 1 <= Len(text)
    /\ SubSeq(text, at, at + Len(pat) - 1) = pat

\* text.find(pat, from - 1) + 1: the first position >= from where pat starts, 0 if none
Find(text, pat, from) ==
    LET hits == {p \in from..Len(text) : StartsAt(text, pat, p)}
    IN  IF hits = {} THEN 0 ELSE CHOOSE p \in hits : \A q \in hits : p <= q

\* pat in text
Contains(text, pat) == Find(text, pat, 1) # 0

\* the end of the longest run of characters of class at position from (from - 1 if none)
RunEnd(text, from, class) ==
    LET stops == {p \in from..Len(text) : text[p] \notin class}
    IN  IF stops = {} THEN Len(text) ELSE (CHOOSE p \in stops : \A q \in stops : p <= q) - 1

\* text.strip()
Strip(text) ==
    LET keep == {p \in 1..Len(text) : text[p] \notin SpaceChars}
    IN  IF keep = {} THEN <<>>
        ELSE SubSeq(text, CHOOSE p \in keep : \A q \in keep : p <= q,
                          CHOOSE p \in keep : \A q \in keep : p >= q)

\* text.split(): the maximal runs of non-whitespace characters, in order
RECURSIVE SplitFrom(_, _)
SplitFrom(text, from) ==
    LET starts == {p \in from..Len(text) : text[p] \notin SpaceChars}
    IN  IF starts = {} THEN <<>>
        ELSE LET b == CHOOSE p \in starts : \A q \in starts : p <= q
                 e == RunEnd(text, b, {text[p] : p \in starts})
             IN  <<SubSeq(text, b, e)>> \o SplitFrom(text, e + 1)

Split(text) == SplitFrom(text, 1)

\* str(n) for n >= 0
DigitChars == <<"0", "1", "2", "3", "4", "5", "6", "7", "8", "9">>

RECURSIVE Str(_)
Str(n) == IF n < 10 THEN <<DigitChars[n + 1]>> ELSE Str(n \div 10) \o <<DigitChars[(n % 10) + 1]>>

----------------------------------------------------------------------------
(* routes.py: extract_and_save_artifacts *)

\* the backquote, one character
Backquote == "U+0060"

Fence == <<Backquote, Backquote, Backquote>>

\* re.findall(pattern, text, re.DOTALL) from position from on, where pattern is
\* a fence, (\w+)?, \s*, (.*?) and a fence, a fence being three backquotes.
\* After an opening fence the tag takes the longest run of \w, \s* the longest
\* run of whitespace, and the body ends at the first fence behind them; neither
\* run holds a backquote, so giving characters back never finds another match.
RECURSIVE FindBlocks(_, _)
FindBlocks(text, from) ==
    LET open == Find(text, Fence, from)
        langEnd == RunEnd(text, open + Len(Fence), WordChars)
        bodyStart == RunEnd(text, langEnd + 1, SpaceChars) + 1
        close == Find(text, Fence, bodyStart)
    IN  IF open = 0 THEN <<>>
        ELSE IF close = 0 THEN FindBlocks(text, open + 1)
        ELSE <<[lang |-> SubSeq(text, open + Len(Fence), langEnd),
                code |-> SubSeq(text, bodyStart, close - 1),
                first |-> open,
                last |-> close + Len(Fence) - 1]>>
             \o FindBlocks(text, close + Len(Fence))

Doctype == <<"<", "!", "d", "o", "c", "t", "y", "p", "e">>
HtmlOpen == <<"<", "h", "t", "m", "l">>
HtmlClose == <<"<", "/", "h", "t", "m", "l", ">">>

\* re.search(r'<!doctype.*?</html>', text, re.DOTALL | re.IGNORECASE)
HtmlDocument(text) ==
    LET b == Find(Lower(text), Doctype, 1)
        e == IF b = 0 THEN 0 ELSE Find(Lower(text), HtmlClose, b + Len(Doctype))
    IN  IF e = 0 THEN <<>>
        ELSE <<[lang |-> <<"h", "t", "m", "l">>,
                code |-> SubSeq(text, b, e + Len(HtmlClose) - 1),
                first |-> b,
                last |-> e + Len(HtmlClose) - 1]>>

\* the list matches of extract_and_save_artifacts
Matches(text) ==
    IF FindBlocks(text, 1) # <<>> THEN FindBlocks(text, 1)
    ELSE IF Contains(Lower(text), Doctype) \/ Contains(Lower(text), HtmlOpen)
         THEN HtmlDocument(text)
         ELSE <<>>

\* ext_map
ExtMap ==
    {<<<<"h", "t", "m", "l">>, ".html">>,
     <<<<"h", "t", "m">>, ".html">>,
     <<<<"c", "s", "s">>, ".css">>,
     <<<<"j", "a", "v", "a", "s", "c", "r", "i", "p", "t">>, ".js">>,
     <<<<"j", "s">>, ".js">>,
     <<<<"p", "y", "t", "h", "o", "n">>, ".py">>,
     <<<<"p", "y">>, ".py">>,
     <<<<"j", "s", "o", "n">>, ".json">>,
     <<<<"x", "m", "l">>, ".xml">>,
     <<<<"s", "q", "l">>, ".sql">>,
     <<<<"b", "a", "s", "h">>, ".sh">>,
     <<<<"s", "h", "e", "l", "l">>, ".sh">>,
     <<<<"t", "y", "p", "e", "s", "c", "r", "i", "p", "t">>, ".ts">>,
     <<<<"t", "s", "x">>, ".tsx">>,
     <<<<"j", "s", "x">>, ".jsx">>}

SniffLimit == 200

PyDef == <<"d", "e", "f", " ">>
PyImport == <<"i", "m", "p", "o", "r", "t", " ">>
PyClass == <<"c", "l", "a", "s", "s", " ">>

\* a slip: the extension taken from the tag alone, an untagged match being text
ExtOfTagOnly(lang, code) ==
    IF \E e \in ExtMap : e[1] = Lower(lang)
    THEN (CHOOSE e \in ExtMap : e[1] = Lower(lang))[2]
    ELSE ".txt"

\* the extension of one match
ExtOf(lang, code) ==
    IF lang = <<>>
    THEN LET code_lower == Lower(Prefix(code, SniffLimit))
         IN  IF Contains(code_lower, Doctype) \/ Contains(code_lower, HtmlOpen) THEN ".html"
             ELSE IF StartsAt(Strip(code_lower), <<"{">>, 1) \/ StartsAt(Strip(code_lower), <<"[">>, 1)
                  THEN ".json"
             ELSE IF Contains(code, PyDef) \/ Contains(code, PyImport) \/ Contains(code, PyClass)
                  THEN ".py"
             ELSE ".txt"
    ELSE IF \E e \in ExtMap : e[1] = Lower(lang)
         THEN (CHOOSE e \in ExtMap : e[1] = Lower(lang))[2]
         ELSE ".txt"

\* f"artifact_{timestamp}_{i+1}{ext}"; the timestamp is the clock to the second
FileName(t, i, ext) == [timestamp |-> t, ordinal |-> i, ext |-> ext]

\* re.sub(pattern, '', text, flags=re.DOTALL)
RECURSIVE RemoveBlocks(_, _)
RemoveBlocks(text, from) ==
    LET found == FindBlocks(text, from)
    IN  IF found = <<>> THEN Suffix(text, from)
        ELSE SubSeq(text, from, found[1].first - 1) \o RemoveBlocks(text, found[1].last + 1)

Newlines == {"\n"}

\* re.sub(r'\n{3,}', '\n\n', text)
RECURSIVE CollapseBlankLines(_, _)
CollapseBlankLines(text, from) ==
    IF from > Len(text) THEN <<>>
    ELSE IF text[from] # "\n" THEN <<text[from]>> \o CollapseBlankLines(text, from + 1)
    ELSE LET e == RunEnd(text, from, Newlines)
         IN  (IF e - from + 1 >= 3 THEN <<"\n", "\n">> ELSE SubSeq(text, from, e))
                \o CollapseBlankLines(text, e + 1)

\* the check mark of the notice, one character
CheckMark == "U+2705"

\* f"\n\n(check mark) **{count} artefato(s) criado(s)!** " + "[Clique aqui para visualizar](/artifacts)"
ArtifactMsg(count) ==
    <<"\n", "\n", CheckMark, " ", "*", "*">> \o Str(count) \o
    <<" ", "a", "r", "t", "e", "f", "a", "t", "o", "(", "s", ")", " ", "c", "r", "i", "a", "d", "o", "(", "s", ")", "!", "*", "*", " ", "[", "C", "l", "i", "q", "u", "e", " ", "a", "q", "u", "i", " ", "p", "a", "r", "a", " ", "v", "i", "s", "u", "a", "l", "i", "z", "a", "r", "]", "(", "/", "a", "r", "t", "i", "f", "a", "c", "t", "s", ")">>

\* the files the loop over matches writes, in order: <<name, content>>
Writes(found, t) ==
    [i \in 1..Len(found) |->
        <<FileName(t, i, ExtOf(found[i].lang, found[i].code)), Strip(found[i].code)>>]

\* extract_and_save_artifacts(response_text) at time t: the returned pair and
\* the files written
extract_and_save_artifacts(response_text, t) ==
    LET found == Matches(response_text)
        count == Len(found)
    IN  IF found = <<>>
        THEN [text |-> response_text, count |-> 0, writes |-> <<>>]
        ELSE [text |-> Strip(CollapseBlankLines(RemoveBlocks(response_text, 1), 1))
                          \o ArtifactMsg(count),
              count |-> count,
              writes |-> Writes(found, t)]

----------------------------------------------------------------------------
(* sessions.py: SessionManager                                             *)
(*                                                                         *)
(* Every classmethod is an operator of the current state that gives the    *)
(* outcome of the call: the store after it (sessions, current, uuids) and  *)
(* its return value (result). No method has a suspension point, so under   *)
(* the event loop each call is one atomic step.                            *)

Keys == {sessions[i].session_id : i \in 1..Len(sessions)}

IndexOf(session_id) == CHOOSE i \in 1..Len(sessions) : sessions[i].session_id = session_id

Lookup(session_id) == sessions[IndexOf(session_id)]

\* ids a client can send: every id issued so far (stored or deleted) and 0,
\* an id that was never issued
ClientIds == 0..uuids

Outcome(values, current, drawn, result) ==
    [sessions |-> values, current |-> current, uuids |-> drawn, result |-> result]

Untouched(result) == Outcome(sessions, current_session_id, uuids, result)

NewSession(id, model, t) ==
    [session_id |-> id, title |-> None, favorite |-> FALSE, project_id |-> None,
     messages |-> <<>>, updated_at |-> t, model |-> model, message_count |-> 0]

NewMessage(id, role, content, t) ==
    [id |-> id, role |-> role, content |-> content, timestamp |-> t]

create_session(model) ==
    LET session == NewSession(uuids + 1, model, Now)
    IN  Outcome(Append(sessions, session), Some(session.session_id), uuids + 1, session)

get_session(session_id) ==
    Untouched(IF session_id \in Keys THEN Some(Lookup(session_id)) ELSE None)

\* a slip: a session is created whatever id is given
get_or_create_always(session_id, model) == create_session(model)

\* session_id is Optional[str]: None (and the empty string) is falsy
get_or_create_session(session_id, model) ==
    IF session_id # None /\ session_id[1] \in Keys
    THEN Untouched(Lookup(session_id[1]))
    ELSE create_session(model)

get_current_session ==
    Untouched(IF current_session_id # None /\ current_session_id[1] \in Keys
              THEN Some(Lookup(current_session_id[1]))
              ELSE None)

\* a slip: the pointer is set without the membership test
set_current_unchecked(session_id) ==
    Outcome(sessions, Some(session_id), uuids, TRUE)

set_current_session(session_id) ==
    IF session_id \in Keys
    THEN Outcome(sessions, Some(session_id), uuids, TRUE)
    ELSE Untouched(FALSE)

\* a slip: an ascending sort that is reversed afterwards turns ties around
InsertDescTiesReversed(sorted, s) ==
    LET n == Cardinality({i \in 1..Len(sorted) : sorted[i].updated_at > s.updated_at})
    IN  SubSeq(sorted, 1, n) \o <<s>> \o SubSeq(sorted, n + 1, Len(sorted))

\* sorted(values, key=updated_at, reverse=True) is stable: among equal keys the
\* input order is kept. InsertDesc puts s behind every element whose key is >= its own.
InsertDesc(sorted, s) ==
    LET n == Cardinality({i \in 1..Len(sorted) : sorted[i].updated_at >= s.updated_at})
    IN  SubSeq(sorted, 1, n) \o <<s>> \o SubSeq(sorted, n + 1, Len(sorted))

RECURSIVE SortedDesc(_)
SortedDesc(values) ==
    IF values = <<>> THEN <<>>
    ELSE InsertDesc(SortedDesc(SubSeq(values, 1, Len(values) - 1)), values[Len(values)])

SessionInfo(s) ==
    [session_id |-> s.session_id, title |-> s.title, favorite |-> s.favorite,
     updated_at |-> s.updated_at, message_count |-> Len(s.messages), model |-> s.model]

list_sessions ==
    LET ordered == SortedDesc(sessions)
    IN  Untouched([i \in 1..Len(ordered) |-> SessionInfo(ordered[i])])

\* a slip: the title is cut without the marker
TitleCut(content) == Prefix(content, TitleLimit)

\* content[:50] + ("..." if len(content) > 50 else "")
TitleFrom(content) ==
    Prefix(content, TitleLimit) \o (IF Len(content) > TitleLimit THEN Ellipsis ELSE <<>>)

\* not session.title: None and the empty string are falsy
Falsy(title) == title = None \/ title[1] = <<>>

\* a slip: the message list is assigned instead of appended to
WithMessageOverwrite(session, message, t) ==
    [session EXCEPT
        !.messages = <<message>>,
        !.message_count = Len(<<message>>),
        !.updated_at = t,
        !.title = IF Falsy(@) /\ message.role = "user"
                  THEN Some(TitleFrom(message.content)) ELSE @]

\* a slip: message_count taken before the append
WithMessageStaleCount(session, message, t) ==
    [session EXCEPT
        !.messages = Append(@, message),
        !.message_count = Len(session.messages),
        !.updated_at = t,
        !.title = IF Falsy(@) /\ message.role = "user"
                  THEN Some(TitleFrom(message.content)) ELSE @]

\* a slip: the message is put in front of the list
WithMessageInFront(session, message, t) ==
    LET appended == <<message>> \o session.messages
    IN  [session EXCEPT
            !.messages = appended,
            !.message_count = Len(appended),
            !.updated_at = t,
            !.title = IF Falsy(@) /\ message.role = "user"
                      THEN Some(TitleFrom(message.content)) ELSE @]

\* session.messages.append(message) and the three assignments that follow it
WithMessage(session, message, t) ==
    LET appended == Append(session.messages, message)
    IN  [session EXCEPT
            !.messages = appended,
            !.message_count = Len(appended),
            !.updated_at = t,
            !.title = IF Falsy(@) /\ message.role = "user"
                      THEN Some(TitleFrom(message.content)) ELSE @]

add_message(session_id, role, content) ==
    IF session_id \notin Keys
    THEN Untouched(None)
    ELSE LET message == NewMessage(uuids + 1, role, content, Now)
         IN  Outcome([sessions EXCEPT ![IndexOf(session_id)] = WithMessage(@, message, Now)],
                     current_session_id, uuids + 1, Some(message))

get_messages(session_id) ==
    Untouched(IF session_id \in Keys THEN Lookup(session_id).messages ELSE <<>>)

\* a slip: every field is assigned, an argument that is None too
update_session_assigning_all(session_id, title, favorite, project_id) ==
    IF session_id \notin Keys
    THEN Untouched(None)
    ELSE LET session == [Lookup(session_id) EXCEPT
                            !.title = title,
                            !.favorite = IF favorite # None THEN favorite[1] ELSE FALSE,
                            !.project_id = project_id,
                            !.updated_at = Now]
         IN  Outcome([sessions EXCEPT ![IndexOf(session_id)] = session],
                     current_session_id, uuids, Some(session))

\* only the arguments that are not None are assigned; updated_at always is
update_session(session_id, title, favorite, project_id) ==
    IF session_id \notin Keys
    THEN Untouched(None)
    ELSE LET session == [Lookup(session_id) EXCEPT
                            !.title = IF title # None THEN title ELSE @,
                            !.favorite = IF favorite # None THEN favorite[1] ELSE @,
                            !.project_id = IF project_id # None THEN project_id ELSE @,
                            !.updated_at = Now]
         IN  Outcome([sessions EXCEPT ![IndexOf(session_id)] = session],
                     current_session_id, uuids, Some(session))

\* del cls._sessions[session_id]
Without(values, i) == SubSeq(values, 1, i - 1) \o SubSeq(values, i + 1, Len(values))

\* a slip: the pointer is cleared whatever it referenced
delete_and_clear(session_id) ==
    IF session_id \in Keys
    THEN Outcome(Without(sessions, IndexOf(session_id)), None, uuids, TRUE)
    ELSE Untouched(FALSE)

\* a slip: the pointer is left as it is
delete_keeping_pointer(session_id) ==
    IF session_id \in Keys
    THEN Outcome(Without(sessions, IndexOf(session_id)), current_session_id, uuids, TRUE)
    ELSE Untouched(FALSE)

delete_session(session_id) ==
    IF session_id \in Keys
    THEN Outcome(Without(sessions, IndexOf(session_id)),
                 IF current_session_id = Some(session_id) THEN None ELSE current_session_id,
                 uuids, TRUE)
    ELSE Untouched(FALSE)

reset(model) == create_session(model)

----------------------------------------------------------------------------
(* Calls on the store *)

\* the store after a call
Apply(outcome) ==
    /\ sessions' = outcome.sessions
    /\ current_session_id' = outcome.current
    /\ uuids' = outcome.uuids

\* argument values of the calls
Titles == {<<>>, <<"T">>}
Projects == {<<"p">>}
OptTitles == {None} \cup {Some(x) : x \in Titles}
OptFavorites == {None, Some(TRUE), Some(FALSE)}
OptProjects == {None} \cup {Some(x) : x \in Projects}
OptIds == {None} \cup {Some(id) : id \in ClientIds}

\* the roles and contents the calls of StoreSpec send
SentRoles == {"user", "assistant"}
SentContents == {ShortContent}

\* the PATCH bodies the calls of StoreSpec send
Patches ==
    {<<None, None, None>>,
     <<Some(<<"T">>), None, None>>,
     <<None, Some(TRUE), Some(<<"p">>)>>,
     <<Some(<<>>), Some(FALSE), None>>}

CallCreate ==
    \E model \in Models :
        /\ uuids < MaxUuid
        /\ Apply(create_session(model))
        /\ UNCHANGED <<clock, updates, callers, aside>>

CallGet ==
    \E id \in ClientIds :
        /\ Apply(get_session(id))
        /\ UNCHANGED <<clock, updates, callers, aside>>

CallGetOrCreate ==
    \E id \in OptIds, model \in Models :
        /\ get_or_create_session(id, model).uuids <= MaxUuid
        /\ Apply(get_or_create_session(id, model))
        /\ UNCHANGED <<clock, updates, callers, aside>>

CallGetCurrent ==
    /\ Apply(get_current_session)
    /\ UNCHANGED <<clock, updates, callers, aside>>

CallSetCurrent ==
    \E id \in ClientIds :
        /\ Apply(set_current_session(id))
        /\ UNCHANGED <<clock, updates, callers, aside>>

CallList ==
    /\ Apply(list_sessions)
    /\ UNCHANGED <<clock, updates, callers, aside>>

CallAddMessage ==
    \E id \in ClientIds, role \in SentRoles, content \in SentContents :
        /\ add_message(id, role, content).uuids <= MaxUuid
        /\ Apply(add_message(id, role, content))
        /\ UNCHANGED <<clock, updates, callers, aside>>

CallGetMessages ==
    \E id \in ClientIds :
        /\ Apply(get_messages(id))
        /\ UNCHANGED <<clock, updates, callers, aside>>

CallUpdate ==
    \E id \in ClientIds, patch \in Patches :
        /\ id \in Keys => updates < MaxUpdates
        /\ Apply(update_session(id, patch[1], patch[2], patch[3]))
        /\ updates' = IF id \in Keys THEN updates + 1 ELSE updates
        /\ UNCHANGED <<clock, callers, aside>>

CallDelete ==
    \E id \in ClientIds :
        /\ Apply(delete_session(id))
        /\ UNCHANGED <<clock, updates, callers, aside>>

CallReset ==
    \E model \in Models :
        /\ uuids < MaxUuid
        /\ Apply(reset(model))
        /\ UNCHANGED <<clock, updates, callers, aside>>

\* the environment: time passes between calls
Tick ==
    /\ clock < MaxClock
    /\ clock' = clock + 1
    /\ UNCHANGED <<sessions, current_session_id, uuids, updates, callers, aside>>

----------------------------------------------------------------------------
(* The session store driven by arbitrary calls *)

NoCallers == <<>>
NoTrails == <<>>
NoFiles == <<>>
NoRequests == <<>>

StoreInit ==
    /\ sessions = <<>>
    /\ current_session_id = None
    /\ clock = 0
    /\ uuids = 0
    /\ updates = 0
    /\ callers = NoCallers
    /\ trails = NoTrails
    /\ files = NoFiles
    /\ req = NoRequests

StoreNext ==
    \/ CallCreate
    \/ CallGet
    \/ CallGetOrCreate
    \/ CallGetCurrent
    \/ CallSetCurrent
    \/ CallList
    \/ CallAddMessage
    \/ CallGetMessages
    \/ CallUpdate
    \/ CallDelete
    \/ CallReset
    \/ Tick

StoreSpec == StoreInit /\ [][StoreNext]_vars

----------------------------------------------------------------------------
(* Claims on the session store, checked under StoreSpec *)

\* C7: in every reachable state of the store, every stored session's
\* message_count equals the length of its message sequence.
C7_MessageCountIsLength ==
    \A i \in 1..Len(sessions) : sessions[i].message_count = Len(sessions[i].messages)

\* a session that received two messages, next to a second session
C7_Witness ==
    /\ Len(sessions) >= 1
    /\ \E i \in 1..Len(sessions) :
          /\ Len(sessions[i].messages) >= 2
          /\ sessions[i].message_count >= 2

\* ids that are not keys of the store
UnknownIds == ClientIds \ Keys

\* C9: get, setCurrent, addMessage, update and delete on an id that is not in
\* the store return None / False and leave the session map, every session and
\* the current-session pointer as they are; delete leaves the map size as it is.
C9_UnknownIdIsNoOp ==
    \A id \in UnknownIds :
        /\ get_session(id) = Untouched(None)
        /\ set_current_session(id) = Untouched(FALSE)
        /\ \A role \in Roles, content \in Contents :
              add_message(id, role, content) = Untouched(None)
        /\ \A title \in OptTitles, favorite \in OptFavorites, project_id \in OptProjects :
              update_session(id, title, favorite, project_id) = Untouched(None)
        /\ delete_session(id) = Untouched(FALSE)
        /\ Len(delete_session(id).sessions) = Len(sessions)

\* the id of a session that was deleted, while another session is stored and current
C9_Witness ==
    /\ Len(sessions) >= 1
    /\ current_session_id # None
    /\ \E id \in 1..uuids :
          /\ id \in UnknownIds
          /\ \A i \in 1..Len(sessions) :
                \A k \in 1..Len(sessions[i].messages) : sessions[i].messages[k].id # id

\* C10: list() has one summary per stored session, ordered by updated_at
\* descending, sessions of equal updated_at in their insertion order, and each
\* summary carries the length of its session's message sequence.
C10_ListSortedStable ==
    LET listed == list_sessions.result
    IN  /\ Len(listed) = Len(sessions)
        /\ \A id \in Keys :
              Cardinality({i \in 1..Len(listed) : listed[i].session_id = id}) = 1
        /\ \A i \in 1..Len(listed) :
              /\ listed[i].session_id \in Keys
              /\ listed[i].updated_at = Lookup(listed[i].session_id).updated_at
              /\ listed[i].message_count = Len(Lookup(listed[i].session_id).messages)
        /\ \A i, j \in 1..Len(listed) :
              i < j =>
                 /\ listed[i].updated_at >= listed[j].updated_at
                 /\ listed[i].updated_at = listed[j].updated_at
                       => IndexOf(listed[i].session_id) < IndexOf(listed[j].session_id)

\* three sessions, two of them with equal updated_at, listed in another order
\* than they were inserted
C10_Witness ==
    LET listed == list_sessions.result
    IN  /\ Len(sessions) >= 3
        /\ \E i, j \in 1..Len(sessions) : i # j /\ sessions[i].updated_at = sessions[j].updated_at
        /\ \E i \in 1..Len(sessions) : listed[i].session_id # sessions[i].session_id

----------------------------------------------------------------------------
(* Concurrent callers of add_message on one session                        *)
(*                                                                         *)
(* Each caller is a coroutine of the event loop that calls add_message     *)
(* once; add_message holds no await, so the calls interleave as whole      *)
(* calls, in any order, with time passing between them.                    *)

Callers == 1..NumCallers

\* the store the callers start from: create_session() followed by one
\* add_message(1, "user", "hi"), both at time 0
AppendStart ==
    <<WithMessage(NewSession(1, "haiku", 0), NewMessage(2, "user", ShortContent, 0), 0)>>

Target == AppendStart[1].session_id

AppendInit ==
    /\ sessions = AppendStart
    /\ current_session_id = Some(Target)
    /\ clock = 0
    /\ uuids = 2
    /\ updates = 0
    /\ callers = [c \in Callers |-> [pc |-> "ready", result |-> None]]
    /\ trails = NoTrails
    /\ files = NoFiles
    /\ req = NoRequests

CallerAppend(c) ==
    /\ callers[c].pc = "ready"
    /\ \E role \in Roles :
          /\ Apply(add_message(Target, role, ShortContent))
          /\ callers' = [callers EXCEPT ![c] =
                            [pc |-> "done",
                             result |-> add_message(Target, role, ShortContent).result]]
    /\ UNCHANGED <<clock, updates, aside>>

AppendNext ==
    \/ \E c \in Callers : CallerAppend(c)
    \/ Tick

AppendSpec == AppendInit /\ [][AppendNext]_vars

AllReturned == \A c \in Callers : callers[c].pc = "done"

\* C8: once N concurrent callers have each appended one message to the same
\* session, the session holds exactly N new messages behind the earlier ones,
\* each caller's message exactly once, and message_count has grown by N.
C8_NoAppendLost ==
    AllReturned =>
        LET session == Lookup(Target)
            before == AppendStart[1].messages
        IN  /\ Len(session.messages) = Len(before) + NumCallers
            /\ session.message_count = AppendStart[1].message_count + NumCallers
            /\ SubSeq(session.messages, 1, Len(before)) = before
            /\ \A c \in Callers :
                  /\ callers[c].result # None
                  /\ Cardinality({k \in 1..Len(session.messages) :
                                     session.messages[k] = callers[c].result[1]}) = 1

\* all callers returned, and the messages do not lie in the order of the callers
C8_Witness ==
    /\ AllReturned
    /\ \E c, d \in Callers :
          /\ c < d
          /\ callers[c].result[1].id > callers[d].result[1].id
          /\ callers[c].result[1].timestamp > callers[d].result[1].timestamp

----------------------------------------------------------------------------
(* audit.py: AuditTrail                                                    *)
(*                                                                         *)
(* The operators take the dict _trails as tr and give the dict after the   *)
(* call; a session's trail is the list of its steps.                       *)

AuditStep(step, details, t) ==
    [step |-> step, status |-> "running", started_at |-> t, ended_at |-> None,
     duration_ms |-> None, details |-> details, error |-> None]

TrailOf(tr, session_id) == IF session_id \in DOMAIN tr THEN tr[session_id] ELSE <<>>

start_step(tr, session_id, step, details) ==
    [id \in DOMAIN tr \cup {session_id} |->
        IF id = session_id
        THEN Append(TrailOf(tr, id), AuditStep(step, details, Now))
        ELSE tr[id]]

\* a slip: the status of the step is not looked at
NamedAt(trail, step) == {k \in 1..Len(trail) : trail[k].step = step}

\* the steps of a trail that end_step(step) can close
RunningAt(trail, step) ==
    {k \in 1..Len(trail) : trail[k].step = step /\ trail[k].status = "running"}

\* a slip: the trail is scanned from its start
FirstRunning(trail, step) ==
    CHOOSE k \in RunningAt(trail, step) : \A j \in RunningAt(trail, step) : k <= j

\* the last of them: the first that reversed(trail) meets
LastRunning(trail, step) ==
    CHOOSE k \in RunningAt(trail, step) : \A j \in RunningAt(trail, step) : j <= k

\* the assignments of end_step to the step it found
Ended(audit_step, status, error, t) ==
    [audit_step EXCEPT
        !.ended_at = Some(t),
        !.duration_ms = Some((t - audit_step.started_at) * 1000),
        !.status = status,
        !.error = error]

end_step(tr, session_id, step, status, error) ==
    IF session_id \notin DOMAIN tr \/ RunningAt(TrailOf(tr, session_id), step) = {}
    THEN tr
    ELSE [tr EXCEPT ![session_id] =
            [@ EXCEPT ![LastRunning(@, step)] = Ended(@, status, error, Now)]]

\* asdict(step) for each step of the trail; [] for a session without trail
get_trail(tr, session_id) == TrailOf(tr, session_id)

\* truth value of an Optional[float] or Optional[int]: None and 0 are falsy
Truthy(opt) == opt # None /\ opt[1] # 0

\* opt or 0
OrZero(opt) == IF Truthy(opt) THEN opt[1] ELSE 0

\* sum(s.duration_ms or 0 for s in completed)
RECURSIVE SumDurations(_)
SumDurations(completed) ==
    IF completed = <<>> THEN 0
    ELSE OrZero(completed[1].duration_ms) + SumDurations(Tail(completed))

IsCompleted(s) == Truthy(s.ended_at)

IsErrorStep(s) == s.status = "error"

\* the dict returned for a missing or empty trail
EmptyStats ==
    [total_steps |-> 0, errors |-> 0, total_duration_ms |-> 0, avg_duration_ms |-> 0]

get_stats(tr, session_id) ==
    LET trail == TrailOf(tr, session_id)
        completed == SelectSeq(trail, IsCompleted)
        errors == SelectSeq(trail, IsErrorStep)
        total_duration == SumDurations(completed)
    IN  IF trail = <<>>
        THEN EmptyStats
        ELSE [total_steps |-> Len(trail),
              completed |-> Len(completed),
              errors |-> Len(errors),
              total_duration_ms |-> total_duration,
              avg_duration_ms |-> IF completed # <<>>
                                  THEN total_duration \div Len(completed) ELSE 0]

----------------------------------------------------------------------------
(* routes.py: chat_stream and generate_sse_response                        *)
(*                                                                         *)
(* A request r is a call of the endpoint or of the generator. The          *)
(* generator runs on the event loop: between two suspension points (a      *)
(* yield, an await) it runs alone. Its position pc is                      *)
(*   idle         not called yet                                           *)
(*   init         at the yield of session_init            (suspended)      *)
(*   setup        sandbox created, before setup_sandbox   (running)        *)
(*   rag_wait     in await client.get                     (suspended)      *)
(*   rag_exit     leaving async with AsyncClient          (suspended)      *)
(*   call         before send_message                     (running)        *)
(*   extract      reply received                          (running)        *)
(*   emit         at the head of the loop over words      (running)        *)
(*   chunk        at the yield of a chunk or in the sleep (suspended)      *)
(*   artifacts    at the yield of the artifacts event     (suspended)      *)
(*   done         at the yield of the DONE sentinel       (suspended)      *)
(*   error_setup  at the yield of the setup error         (suspended)      *)
(*   error        at the yield in the except clause       (suspended)      *)
(*   closed       the generator returned                                   *)
(*   abandoned    the generator was closed or cancelled by its consumer    *)
(*   http500      the endpoint raised                                      *)
(* SandboxManager and the retrieval service are outside the repository:    *)
(* each of their calls returns one of its results or raises.               *)

\* the requests in flight
Reqs == {"r1"}

Suspended == {"init", "rag_wait", "rag_exit", "chunk", "artifacts", "done",
              "error_setup", "error"}

Running == {"setup", "call", "extract", "emit"}

Ended_pcs == {"closed", "abandoned", "http500"}

\* the event loop is free for r: no other generator is between two suspension points
LoopFreeFor(r) == \A q \in DOMAIN req \ {r} : req[q].pc \notin Running

LoopFree == \A q \in DOMAIN req : req[q].pc \notin Running

\* the locals of a request that was not made yet
IdleRequest ==
    [pc |-> "idle", message |-> <<>>, session_id |-> 0, use_rag |-> FALSE,
     sandbox |-> "none", query_message |-> <<>>, rag_docs_count |-> 0, rag_raised |-> None,
     response_text |-> <<>>, modified_response |-> <<>>, artifacts_count |-> 0,
     words |-> <<>>, i |-> 0, events |-> <<>>,
     \* the history of the request: the audit steps it started, the answer of the
     \* retrieval, the text given to send_message, the call that failed, what its
     \* calls of add_message returned
     opened |-> <<>>, rag |-> "none", sent |-> None, failed |-> "none",
     appended |-> <<>>]

\* the models the clients name, if they name one
OptModels == {None} \cup {Some(model) : model \in Models}

\* the messages the clients send
Messages == {<<"h", "i">>}

\* the replies send_message returns
EmptyReply == <<>>
PlainReply == <<"a", " ", "b">>
CodeReply == <<"x", " ", Backquote, Backquote, Backquote, "p", "y", "\n", "1", Backquote, Backquote, Backquote>>

Replies == {EmptyReply, PlainReply, CodeReply}

\* the documents the retrieval service finds
Documents == <<[source |-> <<"d">>, content |-> <<"t">>]>>

ContextLimit == 1000

\* message[:50] in the details of rag_search
QueryLimit == 50

PromptHead == "<base_conhecimento>"
PromptRules == "</base_conhecimento> IMPORTANTE: ... Pergunta: "

\* "\n\n".join(f"[Fonte: {r['source']}]\n{r['content'][:1000]}" for r in results)
RECURSIVE Context(_)
Context(results) ==
    IF results = <<>> THEN <<>>
    ELSE (IF Len(results) > 1 THEN Context(SubSeq(results, 1, Len(results) - 1)) \o <<"\n", "\n">>
          ELSE <<>>)
         \o <<"[", "F", "o", "n", "t", "e", ":", " ">> \o results[Len(results)].source \o <<"]", "\n">>
         \o Prefix(results[Len(results)].content, ContextLimit)

\* the augmented prompt: the fixed text around the context and the question;
\* no operation looks into the two fixed blocks, each is one element
AugmentedPrompt(results, message) ==
    <<PromptHead, "\n">> \o Context(results) \o <<"\n", PromptRules>> \o message

\* the events of the stream
SessionInit(session_id) == [type |-> "session_init", session_id |-> session_id]

\* a slip: the chunk carries the bare word
ChunkEventBare(word, session_id, i) ==
    IF i = 0
    THEN [text |-> word, session_id |-> session_id, refresh_sessions |-> TRUE]
    ELSE [text |-> word, session_id |-> session_id]

\* a slip: every chunk asks for a refresh
ChunkEventAlwaysRefresh(word, session_id, i) ==
    [text |-> word \o <<" ">>, session_id |-> session_id, refresh_sessions |-> TRUE]

ChunkEvent(word, session_id, i) ==
    IF i = 0
    THEN [text |-> word \o <<" ">>, session_id |-> session_id, refresh_sessions |-> TRUE]
    ELSE [text |-> word \o <<" ">>, session_id |-> session_id]

ArtifactsEvent(n) == [artifacts |-> n]

DoneSentinel == [sentinel |-> "[DONE]"]

ErrorEvent(text) == [error |-> text]

IsChunk(e) == "text" \in DOMAIN e
IsError(e) == "error" \in DOMAIN e
IsDone(e) == "sentinel" \in DOMAIN e
IsInit(e) == "type" \in DOMAIN e
IsArtifacts(e) == "artifacts" \in DOMAIN e

\* a slip: the handle is kept when the block is left
Kept(sandbox) == sandbox

\* leaving the with block of the sandbox: the handle is released
Released(sandbox) == IF sandbox = "held" THEN "released" ELSE sandbox

\* r starts a step: the trail after it, and the place of the step in it
Opening(r, step, details) == start_step(trails, req[r].session_id, step, details)

Opened(r, tr, step) ==
    Append(req[r].opened, [step |-> step, at |-> Len(tr[req[r].session_id])])

\* a slip: the error event is yielded and the generator goes on where it was
CaughtAndResumed(locals, what, text) ==
    [locals EXCEPT !.failed = what, !.events = Append(@, ErrorEvent(text))]

\* an exception leaves the with block and reaches the except clause of the
\* generator, which yields one error event
Caught(locals, what, text) ==
    [locals EXCEPT
        !.pc = "error",
        !.sandbox = Released(@),
        !.failed = what,
        !.events = Append(@, ErrorEvent(text))]

\* POST /chat/stream: the session is resolved, then req.use_rag is read, which
\* is no field of StreamChatRequest: the attribute access raises and the
\* endpoint answers 500 without a stream
ChatStream(r) ==
    /\ req[r].pc = "idle"
    /\ LoopFree
    /\ \E message \in Messages, id \in OptIds, model \in OptModels :
          LET session == get_or_create_session(id, IF model = None THEN "minimax" ELSE model[1])
          IN  /\ session.uuids <= MaxUuid
              /\ Apply(session)
              /\ req' = [req EXCEPT ![r] =
                            [@ EXCEPT !.pc = "http500",
                                      !.message = message,
                                      !.session_id = session.result.session_id,
                                      !.failed = "use_rag"]]
    /\ UNCHANGED <<clock, updates, callers, trails, files>>

\* generate_sse_response(message, session_id, use_rag) is called for a stored
\* session and iterated: it yields session_init before anything else
StreamStart(r) ==
    /\ req[r].pc = "idle"
    /\ LoopFree
    /\ \E message \in Messages, session_id \in Keys, use_rag \in BOOLEAN :
          req' = [req EXCEPT ![r] =
                    [@ EXCEPT !.pc = "init",
                              !.message = message,
                              !.session_id = session_id,
                              !.use_rag = use_rag,
                              !.events = <<SessionInit(session_id)>>]]
    /\ UNCHANGED <<sessions, current_session_id, clock, uuids, updates, callers, trails, files>>

\* start_step(create_sandbox); with SandboxManager.create_sandbox() as sandbox
CreateSandbox(r) ==
    /\ req[r].pc = "init"
    /\ LoopFreeFor(r)
    /\ LET sid == req[r].session_id
           started == Opening(r, "create_sandbox", None)
           opened == Opened(r, started, "create_sandbox")
       IN  \/ \* the sandbox is created; the setup step starts
              LET created == end_step(started, sid, "create_sandbox", "success", None)
                  second == start_step(created, sid, "setup_sandbox", None)
              IN  /\ trails' = second
                  /\ req' = [req EXCEPT ![r] =
                                [@ EXCEPT !.pc = "setup",
                                          !.sandbox = "held",
                                          !.opened = Append(opened,
                                              [step |-> "setup_sandbox", at |-> Len(second[sid])])]]
           \/ \* create_sandbox raises
              /\ trails' = started
              /\ req' = [req EXCEPT ![r] =
                            Caught([@ EXCEPT !.opened = opened], "create", "create_sandbox failed")]
    /\ UNCHANGED <<sessions, current_session_id, clock, uuids, updates, callers, files>>

\* a slip: the user message is appended before the sandbox is set up
SetupSandboxBehindMessage(r) ==
    /\ req[r].pc = "setup"
    /\ LoopFreeFor(r)
    /\ Apply(add_message(req[r].session_id, "user", req[r].message))
    /\ trails' = end_step(trails, req[r].session_id, "setup_sandbox", "error",
                          Some("Falha ao configurar"))
    /\ req' = [req EXCEPT ![r] =
                  [@ EXCEPT !.pc = "error_setup",
                            !.failed = "setup",
                            !.events = Append(@, ErrorEvent("Falha ao configurar sandbox"))]]
    /\ UNCHANGED <<clock, updates, callers, files>>

\* SandboxManager.setup_sandbox(sandbox), then the user message and, with
\* use_rag, the start of the retrieval
SetupSandbox(r) ==
    /\ req[r].pc = "setup"
    /\ LoopFreeFor(r)
    /\ LET sid == req[r].session_id
       IN  \/ \* setup succeeds
              LET set == end_step(trails, sid, "setup_sandbox", "success", None)
                  rag == start_step(set, sid, "rag_search",
                                    Some([query |-> Prefix(req[r].message, QueryLimit)]))
              IN  /\ Apply(add_message(sid, "user", req[r].message))
                  /\ IF req[r].use_rag
                     THEN /\ trails' = rag
                          /\ req' = [req EXCEPT ![r] =
                                        [@ EXCEPT !.pc = "rag_wait",
                                                  !.query_message = req[r].message,
                                                  !.appended = Append(@,
                                                      add_message(sid, "user", req[r].message).result),
                                                  !.opened = Append(@,
                                                      [step |-> "rag_search", at |-> Len(rag[sid])])]]
                     ELSE /\ trails' = set
                          /\ req' = [req EXCEPT ![r] =
                                        [@ EXCEPT !.pc = "call",
                                                  !.query_message = req[r].message,
                                                  !.appended = Append(@,
                                                      add_message(sid, "user", req[r].message).result)]]
           \/ \* setup returns False
              /\ trails' = end_step(trails, sid, "setup_sandbox", "error", Some("Falha ao configurar"))
              /\ req' = [req EXCEPT ![r] =
                            [@ EXCEPT !.pc = "error_setup",
                                      !.failed = "setup",
                                      !.events = Append(@, ErrorEvent("Falha ao configurar sandbox"))]]
              /\ UNCHANGED <<sessions, current_session_id, uuids>>
           \/ \* setup raises
              /\ req' = [req EXCEPT ![r] = Caught(@, "setup_raised", "setup_sandbox failed")]
              /\ UNCHANGED <<sessions, current_session_id, uuids, trails>>
    /\ UNCHANGED <<clock, updates, callers, files>>

\* the answer of the retrieval service arrives
RagOutcomes == {"results", "empty", "status", "raised"}

RagReturn(r) ==
    /\ req[r].pc = "rag_wait"
    /\ LoopFreeFor(r)
    /\ LET sid == req[r].session_id
       IN  \E outcome \in RagOutcomes :
              /\ trails' =
                    CASE outcome = "results" ->
                            end_step(trails, sid, "rag_search", "success", None)
                      [] outcome = "empty" ->
                            end_step(trails, sid, "rag_search", "success",
                                     Some("Nenhum documento encontrado"))
                      [] OTHER -> trails
              /\ req' = [req EXCEPT ![r] =
                            [@ EXCEPT
                                !.pc = "rag_exit",
                                !.rag = outcome,
                                !.rag_docs_count = IF outcome = "results" THEN Len(Documents) ELSE 0,
                                !.query_message = IF outcome = "results"
                                                  THEN AugmentedPrompt(Documents, req[r].message)
                                                  ELSE @,
                                !.rag_raised = IF outcome = "raised"
                                               THEN Some("rag request failed") ELSE None]]
    /\ UNCHANGED <<sessions, current_session_id, clock, uuids, updates, callers, files>>

\* a slip: an exception of the retrieval is not caught next to it and ends the request
RagExitAborts(r) ==
    /\ req[r].pc = "rag_exit"
    /\ LoopFreeFor(r)
    /\ req' = [req EXCEPT ![r] =
                  IF req[r].rag_raised # None
                  THEN [@ EXCEPT !.pc = "error",
                                 !.sandbox = "released",
                                 !.events = Append(@, ErrorEvent("rag request failed"))]
                  ELSE [@ EXCEPT !.pc = "call"]]
    /\ UNCHANGED <<sessions, current_session_id, clock, uuids, updates, callers, trails, files>>

\* the client is closed; an exception of the retrieval reaches its except clause
RagExit(r) ==
    /\ req[r].pc = "rag_exit"
    /\ LoopFreeFor(r)
    /\ trails' = IF req[r].rag_raised # None
                 THEN end_step(trails, req[r].session_id, "rag_search", "error", req[r].rag_raised)
                 ELSE trails
    /\ req' = [req EXCEPT ![r] = [@ EXCEPT !.pc = "call"]]
    /\ UNCHANGED <<sessions, current_session_id, clock, uuids, updates, callers, files>>

\* start_step(minimax_api); SandboxManager.send_message(sandbox, query_message)
SendMessage(r) ==
    /\ req[r].pc = "call"
    /\ LoopFreeFor(r)
    /\ LET sid == req[r].session_id
           started == Opening(r, "minimax_api",
                              Some([rag_used |-> req[r].use_rag,
                                    docs_found |-> req[r].rag_docs_count]))
           opened == Opened(r, started, "minimax_api")
       IN  \/ \E reply \in Replies :
                 /\ trails' = end_step(started, sid, "minimax_api", "success", None)
                 /\ req' = [req EXCEPT ![r] =
                               [@ EXCEPT !.pc = "extract",
                                         !.response_text = reply,
                                         !.sent = Some(req[r].query_message),
                                         !.opened = opened]]
           \/ /\ trails' = started
              /\ req' = [req EXCEPT ![r] =
                            Caught([@ EXCEPT !.opened = opened,
                                             !.sent = Some(req[r].query_message)],
                                   "send", "send_message failed")]
    /\ UNCHANGED <<sessions, current_session_id, clock, uuids, updates, callers, files>>

\* the files after the writes of one extraction: write_text creates or overwrites
Written(dir, writes) ==
    [name \in DOMAIN dir \cup {writes[k][1] : k \in 1..Len(writes)} |->
        IF \E k \in 1..Len(writes) : writes[k][1] = name
        THEN writes[CHOOSE k \in 1..Len(writes) :
                        /\ writes[k][1] = name
                        /\ \A j \in 1..Len(writes) : writes[j][1] = name => j <= k][2]
        ELSE dir[name]]

\* the details of the running extract_artifacts step are set to the count
WithCount(tr, session_id, n) ==
    IF session_id \notin DOMAIN tr \/ RunningAt(tr[session_id], "extract_artifacts") = {}
    THEN tr
    ELSE [tr EXCEPT ![session_id] =
            [@ EXCEPT ![LastRunning(@, "extract_artifacts")] =
                [@ EXCEPT !.details = Some([artifacts_created |-> n])]]]

\* if response_text: the extraction between its two audit calls; then split()
Extract(r) ==
    /\ req[r].pc = "extract"
    /\ LoopFreeFor(r)
    /\ LET sid == req[r].session_id
           started == Opening(r, "extract_artifacts", None)
           got == extract_and_save_artifacts(req[r].response_text, Now)
       IN  IF req[r].response_text # <<>>
           THEN /\ trails' = end_step(WithCount(started, sid, got.count), sid,
                                      "extract_artifacts", "success", None)
                /\ files' = Written(files, got.writes)
                /\ req' = [req EXCEPT ![r] =
                              [@ EXCEPT !.pc = "emit",
                                        !.modified_response = got.text,
                                        !.artifacts_count = got.count,
                                        !.words = Split(got.text),
                                        !.opened = Opened(r, started, "extract_artifacts")]]
           ELSE /\ req' = [req EXCEPT ![r] =
                              [@ EXCEPT !.pc = "emit",
                                        !.modified_response = <<>>,
                                        !.artifacts_count = 0,
                                        !.words = Split(<<>>)]]
                /\ UNCHANGED <<trails, files>>
    /\ UNCHANGED <<sessions, current_session_id, clock, uuids, updates, callers>>

\* one turn of the loop over words: the chunk is yielded, then the sleep
NextChunk(r) ==
    /\ req[r].pc \in {"emit", "chunk"}
    /\ LoopFreeFor(r)
    /\ req[r].i < Len(req[r].words)
    /\ req' = [req EXCEPT ![r] =
                  [@ EXCEPT !.pc = "chunk",
                            !.i = @ + 1,
                            !.events = Append(@, ChunkEvent(req[r].words[req[r].i + 1],
                                                            req[r].session_id, req[r].i))]]
    /\ UNCHANGED <<sessions, current_session_id, clock, uuids, updates, callers, trails, files>>

\* after the loop: the assistant message, then the artifacts event or DONE
Finish(r) ==
    /\ req[r].pc \in {"emit", "chunk"}
    /\ LoopFreeFor(r)
    /\ req[r].i = Len(req[r].words)
    /\ Apply(add_message(req[r].session_id, "assistant", req[r].modified_response))
    /\ req' = [req EXCEPT ![r] =
                  LET returned == add_message(req[r].session_id, "assistant",
                                              req[r].modified_response).result
                  IN  IF req[r].artifacts_count > 0
                      THEN [@ EXCEPT !.pc = "artifacts",
                                     !.appended = Append(@, returned),
                                     !.events = Append(@, ArtifactsEvent(req[r].artifacts_count))]
                      ELSE [@ EXCEPT !.pc = "done",
                                     !.appended = Append(@, returned),
                                     !.events = Append(@, DoneSentinel)]]
    /\ UNCHANGED <<clock, updates, callers, trails, files>>

\* yield "data: [DONE]" behind the artifacts event
Done(r) ==
    /\ req[r].pc = "artifacts"
    /\ LoopFreeFor(r)
    /\ req' = [req EXCEPT ![r] =
                  [@ EXCEPT !.pc = "done", !.events = Append(@, DoneSentinel)]]
    /\ UNCHANGED <<sessions, current_session_id, clock, uuids, updates, callers, trails, files>>

\* a slip: DONE is yielded on every way out
CloseWithDone(r) ==
    /\ req[r].pc \in {"done", "error_setup", "error"}
    /\ LoopFreeFor(r)
    /\ req' = [req EXCEPT ![r] =
                  [@ EXCEPT !.pc = "closed",
                            !.sandbox = "released",
                            !.events = IF req[r].pc = "done" THEN @
                                       ELSE Append(@, [sentinel |-> "[DONE]"])]]
    /\ UNCHANGED <<sessions, current_session_id, clock, uuids, updates, callers, trails, files>>

\* the consumer asks for the next event behind the last yield: the generator
\* leaves the with block, if it is still in it, and returns
Close(r) ==
    /\ req[r].pc \in {"done", "error_setup", "error"}
    /\ LoopFreeFor(r)
    /\ req' = [req EXCEPT ![r] = [@ EXCEPT !.pc = "closed", !.sandbox = Released(@)]]
    /\ UNCHANGED <<sessions, current_session_id, clock, uuids, updates, callers, trails, files>>

\* the client goes away while the generator is suspended: GeneratorExit at a
\* yield, CancelledError in an await; neither is an Exception, so no except
\* clause of the generator runs, and the with block is left
Abandon(r) ==
    /\ req[r].pc \in Suspended
    /\ LoopFreeFor(r)
    /\ req' = [req EXCEPT ![r] = [@ EXCEPT !.pc = "abandoned", !.sandbox = Released(@)]]
    /\ UNCHANGED <<sessions, current_session_id, clock, uuids, updates, callers, trails, files>>

\* GET /session/current: a session is created if there is no current one
GetSessionCurrent ==
    /\ LoopFree
    /\ IF get_current_session.result = None
       THEN /\ uuids < MaxUuid
            /\ Apply(create_session("haiku"))
       ELSE UNCHANGED <<sessions, current_session_id, uuids>>
    /\ UNCHANGED <<clock, updates, callers, aside>>

\* DELETE /sessions/{session_id}, of a stored session or of an unknown id (404)
DeleteSession ==
    /\ LoopFree
    /\ \E id \in Keys \cup {0} : Apply(delete_session(id))
    /\ UNCHANGED <<clock, updates, callers, aside>>

Init ==
    /\ sessions = <<>>
    /\ current_session_id = None
    /\ clock = 0
    /\ uuids = 0
    /\ updates = 0
    /\ callers = NoCallers
    /\ trails = NoTrails
    /\ files = NoFiles
    /\ req = [r \in Reqs |-> IdleRequest]

Next ==
    \/ \E r \in Reqs : ChatStream(r)
    \/ \E r \in Reqs : StreamStart(r)
    \/ \E r \in Reqs : CreateSandbox(r)
    \/ \E r \in Reqs : SetupSandbox(r)
    \/ \E r \in Reqs : RagReturn(r)
    \/ \E r \in Reqs : RagExit(r)
    \/ \E r \in Reqs : SendMessage(r)
    \/ \E r \in Reqs : Extract(r)
    \/ \E r \in Reqs : NextChunk(r)
    \/ \E r \in Reqs : Finish(r)
    \/ \E r \in Reqs : Done(r)
    \/ \E r \in Reqs : Close(r)
    \/ \E r \in Reqs : Abandon(r)
    \/ GetSessionCurrent
    \/ DeleteSession
    \/ Tick

Spec == Init /\ [][Next]_vars

----------------------------------------------------------------------------
(* Claims on one request's stream *)

\* the events of a kind in a stream
Count(events, Kind(_)) == Cardinality({k \in 1..Len(events) : Kind(events[k])})

IsTerminal(e) == IsDone(e) \/ IsError(e)

ChunksOf(events) == SelectSeq(events, IsChunk)

Last(events) == events[Len(events)]

\* the request has ended: its generator returned or was closed by the consumer
Terminated(r) == req[r].pc \in {"closed", "abandoned"}

\* C1: in the stream of every request, at every moment, session_init comes
\* before every chunk, the chunks are the words of the reply that is streamed,
\* in their order, each followed by one space, and a DONE sentinel or an error
\* event has no event behind it.
C1_EventOrder ==
    \A r \in DOMAIN req :
        LET events == req[r].events
            chunks == ChunksOf(events)
            reply_words == Split(req[r].modified_response)
        IN  /\ \A k \in 1..Len(events) :
                  IsChunk(events[k]) => \E j \in 1..(k - 1) : IsInit(events[j])
            /\ Len(chunks) <= Len(reply_words)
            /\ \A k \in 1..Len(chunks) : chunks[k].text = reply_words[k] \o <<" ">>
            /\ \A k \in 1..Len(events) : IsTerminal(events[k]) => k = Len(events)

\* a stream that returned after session_init, several chunks and DONE
C1_Witness ==
    \E r \in DOMAIN req :
        /\ req[r].pc = "closed"
        /\ IsInit(req[r].events[1])
        /\ Len(ChunksOf(req[r].events)) >= 2
        /\ IsDone(Last(req[r].events))

\* C2: every request made through the stream endpoint has session_init as the
\* first event of its stream, carrying the id of the session get_or_create
\* returned, whatever fails later. (The claim as the specification states it.)
C2_SessionInitFirst ==
    \A r \in DOMAIN req :
        req[r].pc # "idle" =>
            /\ req[r].events # <<>>
            /\ req[r].events[1] = SessionInit(req[r].session_id)

\* C3, as the specification states it: every stream that terminated carries
\* exactly one error event and no DONE sentinel, or exactly one DONE sentinel
\* and no error event.
C3_OneTerminalEvent ==
    \A r \in DOMAIN req :
        Terminated(r) =>
            \/ Count(req[r].events, IsError) = 1 /\ Count(req[r].events, IsDone) = 0
            \/ Count(req[r].events, IsDone) = 1 /\ Count(req[r].events, IsError) = 0

\* a step leaves the events a stream has emitted as they are
EventsKept ==
    \A r \in DOMAIN req :
        /\ Len(req[r].events) <= Len(req'[r].events)
        /\ SubSeq(req'[r].events, 1, Len(req[r].events)) = req[r].events

\* C3, amended: a stream never carries more than one terminal event (never an
\* error and a DONE, never two of either); a stream whose generator ran to its
\* return carries exactly one; a stream its consumer abandoned may carry none.
\* No step changes or removes an event already emitted.
C3_OneTerminalEventUnlessAbandoned ==
    /\ [](\A r \in DOMAIN req :
            /\ Count(req[r].events, IsTerminal) <= 1
            /\ req[r].pc = "closed" => Count(req[r].events, IsTerminal) = 1)
    /\ [][EventsKept]_vars

\* a stream whose model call failed returned with an error event as its only
\* terminal event
C3_Witness ==
    \E r \in DOMAIN req :
        /\ req[r].pc = "closed"
        /\ req[r].failed = "send"
        /\ IsError(Last(req[r].events))
        /\ Count(req[r].events, IsDone) = 0

\* the audit step a request started for a call
StepOf(r, step) ==
    LET at == (CHOOSE o \in Range(req[r].opened) : o.step = step).at
    IN  trails[req[r].session_id][at]

\* C4: when create_sandbox or setup_sandbox fails, the audit step opened for
\* the failing call is closed with status error, the stream carries one error
\* event and no DONE sentinel. (The claim as the specification states it.)
C4_AcquisitionFailure ==
    \A r \in DOMAIN req :
        /\ req[r].failed = "create" =>
              /\ StepOf(r, "create_sandbox").status = "error"
              /\ Count(req[r].events, IsError) = 1
              /\ Count(req[r].events, IsDone) = 0
        /\ req[r].failed \in {"setup", "setup_raised"} =>
              /\ StepOf(r, "setup_sandbox").status = "error"
              /\ Count(req[r].events, IsError) = 1
              /\ Count(req[r].events, IsDone) = 0

\* the retrieval was asked and gave nothing to augment with
Degraded(r) == req[r].rag \in {"empty", "status", "raised"}

\* C5: when the retrieval raises, answers with another status than 200 or finds
\* nothing, the request goes on: the text given to send_message is the message
\* as it came, the only failure that can still end the request is a later one,
\* and a stream that returned without such a failure ends with DONE and
\* carries no error event.
C5_RetrievalFailureDegrades ==
    \A r \in DOMAIN req :
        Degraded(r) =>
            /\ req[r].use_rag
            /\ req[r].sent # None => req[r].sent = Some(req[r].message)
            /\ req[r].failed \in {"none", "send"}
            /\ req[r].failed = "none" => Count(req[r].events, IsError) = 0
            /\ req[r].failed = "none" /\ req[r].pc = "closed" => IsDone(Last(req[r].events))

\* a request whose retrieval raised gave the message as it came to the model
\* and returned with DONE
C5_Witness ==
    \E r \in DOMAIN req :
        /\ req[r].rag = "raised"
        /\ req[r].pc = "closed"
        /\ req[r].sent = Some(req[r].message)
        /\ IsDone(Last(req[r].events))

\* C6: no request that has ended holds a sandbox, however it ended.
C6_SandboxReleased ==
    \A r \in DOMAIN req :
        req[r].pc \in Ended_pcs => req[r].sandbox # "held"

\* a stream abandoned between two chunks, its sandbox released
C6_Witness ==
    \E r \in DOMAIN req :
        /\ req[r].pc = "abandoned"
        /\ req[r].sandbox = "released"
        /\ 1 <= req[r].i
        /\ req[r].i < Len(req[r].words)

----------------------------------------------------------------------------
(* The audit recorder driven by arbitrary calls *)

MaxSteps == 2

\* the session ids and step names the calls of AuditSpec pass
AuditIds == {1, 2}
StepNames == {"rag_search", "minimax_api"}
EndStatuses == {"success", "error"}
ErrorTexts == {None, Some("failed")}

\* the status and error the calls of AuditSpec close a step with
Endings == {<<"success", None>>, <<"error", Some("failed")>>}

\* the steps recorded so far, over all sessions
RECURSIVE StepsIn(_, _)
StepsIn(tr, ids) ==
    IF ids = {} THEN 0
    ELSE LET id == CHOOSE x \in ids : TRUE
         IN  Len(tr[id]) + StepsIn(tr, ids \ {id})

CallStartStep ==
    /\ StepsIn(trails, DOMAIN trails) < MaxSteps
    /\ \E id \in AuditIds, step \in StepNames :
          trails' = start_step(trails, id, step, None)
    /\ UNCHANGED <<sessions, current_session_id, clock, uuids, updates, callers, files, req>>

CallEndStep ==
    /\ \E id \in AuditIds, step \in StepNames, ending \in Endings :
          trails' = end_step(trails, id, step, ending[1], ending[2])
    /\ UNCHANGED <<sessions, current_session_id, clock, uuids, updates, callers, files, req>>

\* GET /api/audit/trail/{session_id}: reads only
GetAuditTrail ==
    /\ \E id \in AuditIds :
          [session_id |-> id, trail |-> get_trail(trails, id), stats |-> get_stats(trails, id)]
              \in [session_id : AuditIds, trail : {get_trail(trails, id)},
                   stats : {get_stats(trails, id)}]
    /\ UNCHANGED vars

AuditInit == StoreInit

AuditNext ==
    \/ CallStartStep
    \/ CallEndStep
    \/ GetAuditTrail
    \/ Tick

AuditSpec == AuditInit /\ [][AuditNext]_vars

\* C11: end_step for a session without trail, or with no step of that name in
\* status running, leaves the trail of every session as it is.
C11_EndStepWithoutMatchIsNoOp ==
    \A id \in AuditIds, step \in StepNames, status \in EndStatuses, error \in ErrorTexts :
        (\/ id \notin DOMAIN trails
         \/ \A k \in 1..Len(trails[id]) :
               ~(trails[id][k].step = step /\ trails[id][k].status = "running"))
        => end_step(trails, id, step, status, error) = trails

\* a trail with an ended step of a name and a running step of another name,
\* and no running step of the first name
C11_Witness ==
    \E id \in DOMAIN trails, step \in StepNames :
        /\ \E k \in 1..Len(trails[id]) :
              trails[id][k].step = step /\ trails[id][k].status # "running"
        /\ \E k \in 1..Len(trails[id]) :
              trails[id][k].step # step /\ trails[id][k].status = "running"
        /\ \A k \in 1..Len(trails[id]) :
              trails[id][k].step = step => trails[id][k].status # "running"

\* the index of the most recently started running step of a name, 0 if none
Newest(trail, step) ==
    LET found == {k \in 1..Len(trail) : trail[k].step = step /\ trail[k].status = "running"}
    IN  IF found = {} THEN 0 ELSE CHOOSE k \in found : \A j \in found : j <= k

\* C12: end_step closes exactly one step, the most recently started one of
\* that session with that name and status running: it sets its end time, its
\* duration in milliseconds, its status and its error; every other step of the
\* trail and every other trail is unchanged, and so are length and order.
C12_EndStepClosesNewest ==
    \A id \in DOMAIN trails, step \in StepNames, status \in EndStatuses, error \in ErrorTexts :
        LET trail == trails[id]
            k == Newest(trail, step)
            after == end_step(trails, id, step, status, error)
        IN  k # 0 =>
                /\ DOMAIN after = DOMAIN trails
                /\ \A other \in DOMAIN trails \ {id} : after[other] = trails[other]
                /\ Len(after[id]) = Len(trail)
                /\ \A j \in 1..Len(trail) : j # k => after[id][j] = trail[j]
                /\ after[id][k] = [step |-> step,
                                   status |-> status,
                                   started_at |-> trail[k].started_at,
                                   ended_at |-> Some(Now),
                                   duration_ms |-> Some((Now - trail[k].started_at) * 1000),
                                   details |-> trail[k].details,
                                   error |-> error]

\* a trail in which the newer of two steps of one name was closed, after some
\* time, while the older one is still running
C12_Witness ==
    \E id \in DOMAIN trails :
        \E k, j \in 1..Len(trails[id]) :
            /\ k < j
            /\ trails[id][k].step = trails[id][j].step
            /\ trails[id][k].status = "running"
            /\ trails[id][j].status # "running"
            /\ trails[id][j].duration_ms # Some(0)

StatsFields == {"total_steps", "completed", "errors", "total_duration_ms", "avg_duration_ms"}

\* the ended steps of a trail
EndedSteps(trail) == {k \in 1..Len(trail) : trail[k].ended_at # None}

RECURSIVE DurationOver(_, _)
DurationOver(trail, ks) ==
    IF ks = {} THEN 0
    ELSE LET k == CHOOSE x \in ks : TRUE
         IN  trail[k].duration_ms[1] + DurationOver(trail, ks \ {k})

\* C13: for every session id, with or without trail, get_stats returns the
\* five fields: the trail length, the number of ended steps, the number of
\* steps with status error, the sum of the durations of the ended steps, and
\* that sum divided (floor) by the number of ended steps, 0 if there is none.
\* (The claim as the specification states it.)
C13_StatsFiveFields ==
    \A id \in AuditIds :
        LET stats == get_stats(trails, id)
            trail == TrailOf(trails, id)
            ended == EndedSteps(trail)
            total == DurationOver(trail, ended)
        IN  /\ DOMAIN stats = StatsFields
            /\ stats.total_steps = Len(trail)
            /\ stats.completed = Cardinality(ended)
            /\ stats.errors = Cardinality({k \in 1..Len(trail) : trail[k].status = "error"})
            /\ stats.total_duration_ms = total
            /\ stats.avg_duration_ms = IF ended # {} THEN total \div Cardinality(ended) ELSE 0

----------------------------------------------------------------------------
(* More claims on one request's stream and on the session store *)

\* C14: in every stream with a chunk, the first chunk event carries
\* refresh_sessions = true and no later chunk event has that field.
C14_RefreshOnFirstChunkOnly ==
    \A r \in DOMAIN req :
        LET chunks == ChunksOf(req[r].events)
        IN  \A k \in 1..Len(chunks) :
                IF k = 1
                THEN /\ "refresh_sessions" \in DOMAIN chunks[k]
                     /\ chunks[k].refresh_sessions = TRUE
                ELSE "refresh_sessions" \notin DOMAIN chunks[k]

\* a stream suspended behind its third chunk
C14_Witness ==
    \E r \in DOMAIN req :
        /\ req[r].pc = "chunk"
        /\ Len(ChunksOf(req[r].events)) = 3

\* C17: delete_session of a stored session returns True and removes that
\* session and no other, the others keeping their values and their order; the
\* pointer becomes None if and only if it referenced the deleted id, and is
\* unchanged otherwise.
C17_DeleteRemovesOne ==
    \A id \in Keys :
        LET out == delete_session(id)
        IN  /\ out.result = TRUE
            /\ Len(out.sessions) = Len(sessions) - 1
            /\ \A i \in 1..Len(out.sessions) : out.sessions[i].session_id # id
            /\ \A i \in 1..Len(sessions) :
                  sessions[i].session_id # id =>
                      \E j \in 1..Len(out.sessions) : out.sessions[j] = sessions[i]
            /\ \A i, j \in 1..Len(out.sessions) :
                  i < j => IndexOf(out.sessions[i].session_id) < IndexOf(out.sessions[j].session_id)
            /\ IF current_session_id = Some(id)
               THEN out.current = None
               ELSE out.current = current_session_id
            /\ out.uuids = uuids

\* the current session was deleted and two others are left
C17_Witness ==
    /\ current_session_id = None
    /\ Len(sessions) = 2

\* the request has started the minimax_api step
ModelCallStarted(r) == \E o \in Range(req[r].opened) : o.step = "minimax_api"

\* C18: with retrieval requested, the rag_search step of the request is closed,
\* with status success or error, before its minimax_api step is started,
\* whatever the retrieval answered: no rag_search step of the request is
\* running once the model call has started. (The claim as the specification
\* states it.)
C18_RagStepClosedBeforeModelCall ==
    \A r \in DOMAIN req :
        req[r].use_rag /\ ModelCallStarted(r) =>
            StepOf(r, "rag_search").status \in {"success", "error"}

\* C19: a stream that ends with DONE has appended to its session exactly one
\* user message, the text of the request, and then exactly one assistant
\* message, the reply as it was streamed, whatever other calls (a delete of the
\* same session among them) ran in between. (The claim as the implementation
\* suggests it.)
C19_DoneMeansBothAppended ==
    \A r \in DOMAIN req :
        (req[r].events # <<>> /\ IsDone(Last(req[r].events))) =>
            /\ Len(req[r].appended) = 2
            /\ req[r].appended[1] # None
            /\ req[r].appended[1][1].role = "user"
            /\ req[r].appended[1][1].content = req[r].message
            /\ req[r].appended[2] # None
            /\ req[r].appended[2][1].role = "assistant"
            /\ req[r].appended[2][1].content = req[r].modified_response

----------------------------------------------------------------------------
(* The extraction applied to replies built from blocks *)

MaxBlocks == 2

\* a body longer than the window the sniffing looks at, with an HTML tag behind it
LongHtmlBody == Rep("x", SniffLimit) \o <<"<", "h", "t", "m", "l", ">">>

\* the blocks of the replies: an optional tag and a body without fence
Untagged == <<>>

BlockKinds ==
    {[tag |-> <<"p", "y", "t", "h", "o", "n">>, body |-> <<"x", "=", "1">>],
     [tag |-> <<"z", "z">>, body |-> <<"x">>],
     [tag |-> Untagged, body |-> <<"{", "1", "}">>],
     [tag |-> Untagged, body |-> <<"[", "1", "]">>],
     [tag |-> Untagged, body |-> <<"<", "h", "t", "m", "l", ">">>],
     [tag |-> Untagged, body |-> <<"{", "<", "h", "t", "m", "l", ">">>],
     [tag |-> Untagged, body |-> <<"d", "e", "f", " ", "f">>],
     [tag |-> Untagged, body |-> <<"[", "i", "m", "p", "o", "r", "t", " ", "x">>],
     [tag |-> Untagged, body |-> <<"x">>]}

LongBlock == [tag |-> Untagged, body |-> LongHtmlBody]

\* the text around the blocks: plain words, or a complete HTML document
PlainProse == <<"t">>
HtmlProse == <<"<", "!", "d", "o", "c", "t", "y", "p", "e", " ", "h", "t", "m", "l", ">", "<", "h", "t", "m", "l", ">", "<", "/", "h", "t", "m", "l", ">">>

BlockLists == UNION {[1..n -> BlockKinds] : n \in 0..MaxBlocks}

\* the replies given to the extraction: plain words with blocks and perhaps a
\* stray fence, the long block alone, and a bare HTML document
Inputs ==
    {[prose |-> PlainProse, blocks |-> blocks, stray |-> stray] :
        blocks \in BlockLists \cup {<<LongBlock>>}, stray \in BOOLEAN}
    \cup {[prose |-> HtmlProse, blocks |-> <<>>, stray |-> FALSE]}

\* a block as it stands in a reply: fence, tag, newline, body, newline, fence
BlockText(block) ==
    <<"\n">> \o Fence \o block.tag \o <<"\n">> \o block.body \o <<"\n">> \o Fence

RECURSIVE BlocksText(_)
BlocksText(blocks) ==
    IF blocks = <<>> THEN <<>>
    ELSE BlockText(Head(blocks)) \o BlocksText(Tail(blocks))

\* a fence that nothing closes, behind the blocks
StrayFence == <<"\n">> \o Fence \o <<" ", "u">>

ReplyOf(prose, blocks, stray) ==
    prose \o BlocksText(blocks) \o (IF stray THEN StrayFence ELSE <<>>)

\* one call of extract_and_save_artifacts; callers holds the reply it is given
\* and, afterwards, what it returned
ExtractInit ==
    /\ sessions = <<>>
    /\ current_session_id = None
    /\ clock = 0
    /\ uuids = 0
    /\ updates = 0
    /\ \E input \in Inputs :
          callers = <<[pc |-> "ready", prose |-> input.prose, blocks |-> input.blocks,
                       stray |-> input.stray, at |-> 0, result |-> None]>>
    /\ trails = NoTrails
    /\ files = NoFiles
    /\ req = NoRequests

CallExtract(c) ==
    /\ callers[c].pc = "ready"
    /\ LET got == extract_and_save_artifacts(
                      ReplyOf(callers[c].prose, callers[c].blocks, callers[c].stray), Now)
       IN  /\ files' = Written(files, got.writes)
           /\ callers' = [callers EXCEPT ![c] =
                             [@ EXCEPT !.pc = "done", !.at = Now,
                                       !.result = Some([text |-> got.text, count |-> got.count])]]
    /\ UNCHANGED <<sessions, current_session_id, clock, uuids, updates, trails, req>>

ExtractNext ==
    \/ \E c \in DOMAIN callers : CallExtract(c)
    \/ Tick

ExtractSpec == ExtractInit /\ [][ExtractNext]_vars

\* the extension the rules give a block, the sniffing looking at the first
\* window characters of the body
RuleExt(block, window) ==
    LET seen == Lower(Prefix(block.body, window))
    IN  IF block.tag # Untagged
        THEN IF \E e \in ExtMap : e[1] = Lower(block.tag)
             THEN (CHOOSE e \in ExtMap : e[1] = Lower(block.tag))[2]
             ELSE ".txt"
        ELSE IF Contains(seen, Doctype) \/ Contains(seen, HtmlOpen) THEN ".html"
        ELSE IF seen # <<>> /\ seen[1] \in {"{", "["} THEN ".json"
        ELSE IF \/ Contains(block.body, PyDef)
                \/ Contains(block.body, PyImport)
                \/ Contains(block.body, PyClass) THEN ".py"
        ELSE ".txt"

\* the number of fence markers in a text, read from the left
RECURSIVE Fences(_, _)
Fences(text, from) ==
    LET at == Find(text, Fence, from)
    IN  IF at = 0 THEN 0 ELSE 1 + Fences(text, at + Len(Fence))

EndsWith(text, tail) ==
    /\ Len(tail) <= Len(text)
    /\ SubSeq(text, Len(text) - Len(tail) + 1, Len(text)) = tail

\* what a finished call shows for a reply of k blocks: k files, of the
\* extensions the rules give with the sniffing window, holding the bodies; the
\* count k; a text that ends with the notice of k and holds as many fence
\* markers as left; for a reply without block, 0 and the reply itself
Extracted(c, window, left) ==
    LET blocks == callers[c].blocks
        k == Len(blocks)
        reply == ReplyOf(callers[c].prose, blocks, callers[c].stray)
        got == callers[c].result[1]
    IN  IF k >= 1
        THEN /\ got.count = k
             /\ Cardinality(DOMAIN files) = k
             /\ \A i \in 1..k :
                   /\ FileName(callers[c].at, i, RuleExt(blocks[i], window)) \in DOMAIN files
                   /\ files[FileName(callers[c].at, i, RuleExt(blocks[i], window))] = blocks[i].body
             /\ Fences(got.text, 1) = left
             /\ EndsWith(got.text, ArtifactMsg(k))
             /\ Contains(ArtifactMsg(k), Str(k))
        ELSE callers[c].prose = PlainProse =>
                /\ got.count = 0
                /\ got.text = reply
                /\ files = NoFiles

\* C16, as the specification states it: the sniffing looks at the whole body,
\* and the returned text holds no fence marker.
C16_ExtractionByRules ==
    \A c \in DOMAIN callers :
        callers[c].pc = "done" => Extracted(c, Len(LongHtmlBody), 0)

\* C16, amended: the HTML and JSON sniffing of an untagged block looks at its
\* first 200 characters only, and the returned text still holds a fence marker
\* that no block closes; the blocks themselves, fences included, are removed.
C16_ExtractionByRulesInWindow ==
    \A c \in DOMAIN callers :
        callers[c].pc = "done" =>
            Extracted(c, SniffLimit, IF callers[c].stray THEN 1 ELSE 0)

\* a python-tagged block and an untagged block that starts with a brace gave
\* a .py and a .json file and the count 2
C16_Witness ==
    \E c \in DOMAIN callers :
        /\ callers[c].pc = "done"
        /\ ~callers[c].stray
        /\ Len(callers[c].blocks) = 2
        /\ callers[c].blocks[1].tag = <<"p", "y", "t", "h", "o", "n">>
        /\ callers[c].blocks[2] = [tag |-> Untagged, body |-> <<"{", "1", "}">>]
        /\ callers[c].result[1].count = 2
        /\ {name.ext : name \in DOMAIN files} = {".py", ".json"}

----------------------------------------------------------------------------
(* Two requests at the same time *)

DuoReqs == {"r1", "r2"}

DuoInit ==
    /\ sessions = <<>>
    /\ current_session_id = None
    /\ clock = 0
    /\ uuids = 0
    /\ updates = 0
    /\ callers = NoCallers
    /\ trails = NoTrails
    /\ files = NoFiles
    /\ req = [r \in DuoReqs |-> IdleRequest]

\* the two generators on the event loop up to their last event, the endpoint
\* that gives the clients their session, and the clock
DuoNext ==
    \/ \E r \in DuoReqs : StreamStart(r)
    \/ \E r \in DuoReqs : CreateSandbox(r)
    \/ \E r \in DuoReqs : SetupSandbox(r)
    \/ \E r \in DuoReqs : RagReturn(r)
    \/ \E r \in DuoReqs : RagExit(r)
    \/ \E r \in DuoReqs : SendMessage(r)
    \/ \E r \in DuoReqs : Extract(r)
    \/ \E r \in DuoReqs : NextChunk(r)
    \/ \E r \in DuoReqs : Finish(r)
    \/ \E r \in DuoReqs : Done(r)
    \/ GetSessionCurrent
    \/ Tick

DuoSpec == DuoInit /\ [][DuoNext]_vars

\* the number of blocks the extractions of the requests in rs reported
RECURSIVE ArtifactsOf(_)
ArtifactsOf(rs) ==
    IF rs = {} THEN 0
    ELSE LET r == CHOOSE q \in rs : TRUE
         IN  req[r].artifacts_count + ArtifactsOf(rs \ {r})

\* C15: every extracted block results in a distinct artifact: no extraction
\* writes to a file name an earlier extraction wrote, so there are as many
\* files as blocks were extracted, also when two extractions run within the
\* same second. (The claim as the specification states it.)
C15_ArtifactsWriteOnce ==
    Cardinality(DOMAIN files) = ArtifactsOf(DOMAIN req)

\* C20: with two requests on one session, a request's end_step closes the step
\* the request itself started: while a request waits for the retrieval its
\* rag_search step is running, and once its own end_step has returned its
\* rag_search step is closed. (The claim as the specification states it.)
C20_EndStepClosesOwnStep ==
    \A r \in DOMAIN req :
        /\ req[r].pc = "rag_wait" => StepOf(r, "rag_search").status = "running"
        /\ (req[r].pc = "rag_exit" /\ req[r].rag \in {"results", "empty"}) =>
              StepOf(r, "rag_search").status = "success"

----------------------------------------------------------------------------
(* Claims on the chunks and the tail of a successful stream *)

\* the stream ended with the DONE sentinel
Succeeded(r) == req[r].events # <<>> /\ IsDone(Last(req[r].events))

\* the text that is streamed for the reply send_message returned: the reply
\* without its blocks and with the notice, or nothing for an empty reply
StreamedText(r) ==
    IF req[r].response_text = <<>> THEN <<>>
    ELSE extract_and_save_artifacts(req[r].response_text, 0).text

\* C21: on a stream that ended with DONE the chunks are the words of the
\* streamed reply, one chunk per word and in their order: chunk i carries
\* word i followed by one space and the session id of session_init; there are
\* as many chunks as words, none for an empty reply.
C21_ChunksAreTheWords ==
    \A r \in DOMAIN req :
        Succeeded(r) =>
            LET chunks == ChunksOf(req[r].events)
                reply_words == Split(StreamedText(r))
            IN  /\ IsInit(req[r].events[1])
                /\ Len(chunks) = Len(reply_words)
                /\ \A k \in 1..Len(chunks) :
                      /\ chunks[k].text = reply_words[k] \o <<" ">>
                      /\ chunks[k].session_id = req[r].events[1].session_id
                /\ req[r].response_text = <<>> => chunks = <<>>

\* a finished stream of a reply whose block was taken out, with several chunks
C21_Witness ==
    \E r \in DOMAIN req :
        /\ Succeeded(r)
        /\ req[r].artifacts_count > 0
        /\ Len(ChunksOf(req[r].events)) >= 2
        /\ Len(ChunksOf(req[r].events)) = Len(Split(StreamedText(r)))

\* the events a successful stream ends with, behind its chunks
TailOf(n) == (IF n > 0 THEN <<ArtifactsEvent(n)>> ELSE <<>>) \o <<DoneSentinel>>

\* the order of the tail, without what add_message did: an artifacts event is
\* the only one, carries a count above 0, and stands behind the last chunk and
\* behind the call of add_message for the assistant, which stands behind the
\* last chunk; a successful stream is session_init, the chunks, the tail
TailOrdered(r) ==
    LET events == req[r].events
        chunks == ChunksOf(events)
        n == req[r].artifacts_count
    IN  /\ Count(events, IsArtifacts) <= 1
        /\ \A k \in 1..Len(events) :
              IsArtifacts(events[k]) =>
                  /\ n > 0
                  /\ events[k].artifacts = n
                  /\ \A j \in k..Len(events) : ~IsChunk(events[j])
                  /\ Len(chunks) = Len(req[r].words)
                  /\ Len(req[r].appended) = 2
        /\ Len(req[r].appended) = 2 => Len(chunks) = Len(req[r].words)
        /\ Succeeded(r) =>
              /\ Len(req[r].appended) = 2
              /\ events = <<SessionInit(req[r].session_id)>> \o chunks \o TailOf(n)

\* C22: the tail of a successful stream is ordered: all chunks, then the
\* assistant message is appended to the session, then one artifacts event if
\* and only if the count is above 0, then DONE; no artifacts event for the
\* count 0 and none before the last chunk. (The claim as the specification
\* states it.)
C22_TailOrdered ==
    \A r \in DOMAIN req :
        /\ TailOrdered(r)
        /\ Len(req[r].appended) = 2 =>
              /\ req[r].appended[2] # None
              /\ req[r].appended[2][1].role = "assistant"
              /\ req[r].appended[2][1].content = req[r].modified_response

\* the sandbox of the request could not be created or set up
AcquisitionFailed(r) == req[r].failed \in {"create", "setup", "setup_raised"}

\* a step of the generator of r that leaves r without a call of add_message
StepWithoutAppend(r) ==
    /\ req[r].pc # "idle"
    /\ req'[r] # req[r]
    /\ req'[r].appended = <<>>

\* C23: a request whose sandbox creation or setup failed has called
\* add_message not once, and no step of a request up to its first add_message
\* changes the store: the messages, message_count and title of its session
\* are after the failed request what they were before it.
C23_FailedAcquisitionAppendsNothing ==
    /\ [](\A r \in DOMAIN req : AcquisitionFailed(r) => req[r].appended = <<>>)
    /\ [][\A r \in DOMAIN req :
            StepWithoutAppend(r) =>
                /\ sessions' = sessions
                /\ current_session_id' = current_session_id]_vars

\* a request that ended on a failed setup, its session still stored
C23_Witness ==
    \E r \in DOMAIN req :
        /\ req[r].pc = "closed"
        /\ req[r].failed = "setup"
        /\ req[r].session_id \in Keys
        /\ Lookup(req[r].session_id).messages = <<>>
        /\ Lookup(req[r].session_id).message_count = 0
        /\ Lookup(req[r].session_id).title = None

----------------------------------------------------------------------------
(* More claims on the session store *)

\* the store driven by the calls that write to it
WriteNext ==
    \/ CallCreate
    \/ CallGetOrCreate
    \/ CallSetCurrent
    \/ CallAddMessage
    \/ CallUpdate
    \/ CallDelete
    \/ CallReset
    \/ Tick

WriteSpec == StoreInit /\ [][WriteNext]_vars

\* the store driven by the calls that write to the fields of a session
EditNext ==
    \/ CallCreate
    \/ CallAddMessage
    \/ CallUpdate
    \/ Tick

EditSpec == StoreInit /\ [][EditNext]_vars

\* the keys of a store value
KeysOf(values) == {values[i].session_id : i \in 1..Len(values)}

\* C24: in every reachable state of the store the current-session pointer is
\* None or the id of a stored session; create_session and reset make the
\* session they created, a stored one, the current session.
C24_PointerIsStored ==
    /\ current_session_id = None \/ current_session_id[1] \in Keys
    /\ \A model \in Models :
          /\ create_session(model).current = Some(create_session(model).result.session_id)
          /\ create_session(model).result.session_id \in KeysOf(create_session(model).sessions) \ Keys
          /\ reset(model).current = Some(reset(model).result.session_id)
          /\ reset(model).result.session_id \in KeysOf(reset(model).sessions) \ Keys

\* the pointer references a stored session that is not the one created last,
\* and a session was deleted
C24_Witness ==
    /\ current_session_id # None
    /\ current_session_id[1] \in Keys
    /\ \E id \in Keys : id > current_session_id[1]
    /\ \E id \in UnknownIds : id < current_session_id[1] /\ id > 0

\* C25: get_or_create_session with the id of a stored session returns that
\* session and changes nothing; with no id or an id that is not stored it adds
\* exactly one session, behind the others that stay as they are, with an id no
\* stored session has, no messages and message_count 0, and returns it.
C25_GetOrCreate ==
    \A model \in Models :
        /\ \A id \in Keys :
              get_or_create_session(Some(id), model) = Untouched(Lookup(id))
        /\ \A id \in {None} \cup {Some(unknown) : unknown \in UnknownIds} :
              LET out == get_or_create_session(id, model)
              IN  /\ Len(out.sessions) = Len(sessions) + 1
                  /\ SubSeq(out.sessions, 1, Len(sessions)) = sessions
                  /\ out.result = out.sessions[Len(out.sessions)]
                  /\ out.result.session_id \notin Keys
                  /\ out.result.messages = <<>>
                  /\ out.result.message_count = 0
                  /\ out.result.model = model

\* two stored sessions, one with a message, the current one not the last
\* created, and an id that no session has
C25_Witness ==
    /\ Len(sessions) >= 2
    /\ \E i \in 1..Len(sessions) : sessions[i].messages # <<>>
    /\ current_session_id # None
    /\ current_session_id # Some(sessions[Len(sessions)].session_id)
    /\ UnknownIds \ {0} # {}

\* the contents add_message is tried with: empty, short, of exactly 50 and of
\* 51 characters
TitleContents == Contents \cup {<<>>, Rep("y", TitleLimit)}

\* the title the rule derives from a content
DerivedTitle(content) ==
    IF Len(content) <= TitleLimit THEN content
    ELSE SubSeq(content, 1, TitleLimit) \o Ellipsis

\* add_message on every stored session with every role and content: the title
\* is derived when the session counts as untitled and the role is user, and
\* is left as it is otherwise
TitleRule(Untitled(_)) ==
    \A id \in Keys, role \in Roles, content \in TitleContents :
        LET before == Lookup(id)
            after == add_message(id, role, content).sessions[IndexOf(id)]
        IN  after.title = IF Untitled(before) /\ role = "user"
                          THEN Some(DerivedTitle(content))
                          ELSE before.title

TitleAbsent(session) == session.title = None

TitleAbsentOrEmpty(session) == session.title = None \/ session.title = Some(<<>>)

\* C26, as the specification states it: the title is set only when the
\* session has no title yet and the role is user.
C26_TitleFromFirstUserMessage ==
    TitleRule(TitleAbsent)

\* C26, amended: the title is set when the session has no title or an empty
\* title and the role is user: the content itself up to 50 characters,
\* otherwise its first 50 characters and the ellipsis; any other add_message
\* leaves the title as it is.
C26_TitleFromUserMessageWhenBlank ==
    TitleRule(TitleAbsentOrEmpty)

\* a session whose first message, of the assistant, left it untitled and whose
\* later user message gave the title
C26_Witness ==
    \E i \in 1..Len(sessions) :
        /\ Len(sessions[i].messages) >= 2
        /\ sessions[i].messages[1].role = "assistant"
        /\ sessions[i].title = Some(ShortContent)

\* C27: update_session on a stored session changes, of that session, the
\* fields title, favorite and project_id that are supplied, and updated_at;
\* the fields not supplied, the messages, message_count, model and id of the
\* session, every other session and the current-session pointer are unchanged.
C27_UpdateChangesSuppliedOnly ==
    \A id \in Keys, title \in OptTitles, favorite \in OptFavorites, project_id \in OptProjects :
        LET before == Lookup(id)
            after == [before EXCEPT
                         !.title = IF title # None THEN title ELSE before.title,
                         !.favorite = IF favorite # None THEN favorite[1] ELSE before.favorite,
                         !.project_id = IF project_id # None THEN project_id
                                        ELSE before.project_id,
                         !.updated_at = Now]
        IN  update_session(id, title, favorite, project_id) =
                Outcome([sessions EXCEPT ![IndexOf(id)] = after],
                        current_session_id, uuids, Some(after))

\* a session with messages and the title of its user message that an update
\* made a favorite of a project, next to another session
C27_Witness ==
    /\ Len(sessions) >= 2
    /\ \E i \in 1..Len(sessions) :
          /\ sessions[i].favorite
          /\ sessions[i].project_id # None
          /\ sessions[i].title = Some(ShortContent)
          /\ sessions[i].messages # <<>>

\* the messages of the session id in a store value
MessagesIn(values, id) ==
    values[CHOOSE i \in 1..Len(values) : values[i].session_id = id].messages

IsPrefix(s, t) == Len(s) <= Len(t) /\ SubSeq(t, 1, Len(s)) = s

\* C28: the message sequence of a session is append-only: in every step in
\* which the session stays stored its messages before the step are a prefix
\* of its messages after it, and every add_message puts its message behind
\* the messages the session has.
C28_MessagesAppendOnly ==
    /\ [](\A id \in Keys, role \in Roles, content \in Contents :
             LET out == add_message(id, role, content)
             IN  out.sessions[IndexOf(id)].messages = Append(Lookup(id).messages, out.result[1]))
    /\ [][\A id \in Keys \cap KeysOf(sessions') :
             IsPrefix(MessagesIn(sessions, id), MessagesIn(sessions', id))]_vars

\* a session with a user and then an assistant message, whose title an
\* update has set
C28_Witness ==
    /\ updates >= 1
    /\ \E i \in 1..Len(sessions) :
          /\ Len(sessions[i].messages) = 2
          /\ sessions[i].messages[1].role = "user"
          /\ sessions[i].messages[2].role = "assistant"
          /\ sessions[i].title = Some(<<"T">>)

====
